---- MODULE Spec2Model ----
(***************************************************************************)
(* Credit scoring model (src/src/model.py): CreditScoringModel.predict     *)
(* with its validation, scoring, confidence and explanation steps, and     *)
(* HumanOversight.requires_review / log_decision.                          *)
(*                                                                         *)
(* Numbers.  Python floats are modelled as decimal fixed point:            *)
(*   raw and normalized feature values   in units of 1e-4 (ValueScale),    *)
(*   weights                             in units of 1e-2 (WeightScale),   *)
(*   linear sum, contributions, score,                                     *)
(*   confidence and thresholds           in units of 1e-6 (Scale).         *)
(* weight * normalized is then an exact integer in units of 1e-6.          *)
(* round(x, 4) yields a multiple of 100 units (RoundUnit).                 *)
(***************************************************************************)
EXTENDS Integers, Sequences, FiniteSets, TLC

VARIABLES
    features,   \* the FeatureSet of the last predict call (a dict: name -> raw value)
    outcome,    \* what that call produced: nothing yet, a ValueError, a CreditPrediction
    calls,      \* the helper methods predict ran, in order
    review,     \* what requires_review returned for the prediction, if called
    clock,      \* the reading datetime.now() gives, in ticks
    auditLog    \* the log_decision calls so far, each with the entry it returned

vars == <<features, outcome, calls, review, clock, auditLog>>

----------------------------------------------------------------------------
(* Fixed-point representation *)

ValueScale == 10000
WeightScale == 100
Scale == 1000000
RoundUnit == 100
Limb == 1000

Abs(x) == IF x < 0 THEN -x ELSE x

Min(a, b) == IF a < b THEN a ELSE b

(* a * b / Scale for 0 <= a, b <= Scale, by limbs so that no partial
   product leaves the 32-bit integers of the checker *)
MulFix(a, b) ==
    LET ah == a \div Limb
        al == a % Limb
        bh == b \div Limb
        bl == b % Limb
    IN  ah * bh + (((ah * bl + al * bh) * Limb + al * bl) \div Scale)

(* n * Scale / d for 0 <= n <= d, by long division, one decimal digit a step *)
RECURSIVE DivDigits(_, _, _, _)
DivDigits(q, r, d, k) ==
    IF k = 0 THEN q
    ELSE DivDigits(q * 10 + ((r * 10) \div d), (r * 10) % d, d, k - 1)

DivFix(n, d) == DivDigits(n \div d, n % d, d, 6)

(* e^(-z) for 0 <= z <= Scale/2: the alternating series, term by term *)
RECURSIVE ExpSeries(_, _, _, _)
ExpSeries(z, term, k, acc) ==
    LET next == MulFix(term, z) \div k
    IN  IF next = 0 THEN acc
        ELSE ExpSeries(z, next, k + 1,
                       IF k % 2 = 1 THEN acc - next ELSE acc + next)

(* beyond this exponent e^(-y) is 0 at the resolution of Scale *)
ExpUnderflow == 20000000

(* e^(-y) for y >= 0, halving the exponent until the series applies *)
RECURSIVE ExpNeg(_)
ExpNeg(y) ==
    IF y >= ExpUnderflow THEN 0
    ELSE IF y <= Scale \div 2 THEN ExpSeries(y, Scale, 1, Scale)
    ELSE LET h == ExpNeg(y \div 2) IN MulFix(h, h)

(* 1 / (1 + np.exp(-x * 2)); for x < 0 numerator and denominator are both
   multiplied by e^(2x) so that every intermediate stays below Scale *)
Sigmoid(x) ==
    LET e == ExpNeg(2 * Abs(x))
    IN  IF x >= 0 THEN DivFix(Scale, Scale + e) ELSE DivFix(e, Scale + e)

(* round(x, 4): to the nearest multiple of RoundUnit, ties to even *)
Round4(x) ==
    LET a == Abs(x)
        q == a \div RoundUnit
        r == a % RoundUnit
        up == (2 * r > RoundUnit) \/ (2 * r = RoundUnit /\ q % 2 = 1)
        m == (IF up THEN q + 1 ELSE q) * RoundUnit
    IN  IF x < 0 THEN -m ELSE m

----------------------------------------------------------------------------
(* CreditScoringModel: class constants and the demo model *)

VERSION == "2.1.0"

FEATURES ==
    << "debt_to_income", "credit_utilization", "payment_history_score",
       "account_age_months", "inquiry_count_6mo", "income_stability",
       "employment_length", "existing_accounts" >>

THRESHOLD == 500000

(* self.model['weights'], in insertion order, and self.model['intercept'] *)
Weights ==
    << [feature |-> "debt_to_income",        weight |-> -35],
       [feature |-> "credit_utilization",    weight |-> -25],
       [feature |-> "payment_history_score", weight |-> 30],
       [feature |-> "account_age_months",    weight |-> 15],
       [feature |-> "inquiry_count_6mo",     weight |-> -10],
       [feature |-> "income_stability",      weight |-> 20],
       [feature |-> "employment_length",     weight |-> 10],
       [feature |-> "existing_accounts",     weight |-> 5] >>

Intercept == 500000

Range(s) == {s[i] : i \in DOMAIN s}

----------------------------------------------------------------------------
(* a validation that stops at the first missing name *)
ValidateFirstMissing(f) ==
    LET missing == Range(FEATURES) \ DOMAIN f
    IN  IF missing = {} THEN {} ELSE {CHOOSE k \in missing : TRUE}

(* CreditScoringModel._validate_features: the missing required names;
   predict raises ValueError when the set is not empty *)
ValidateFeatures(f) == Range(FEATURES) \ DOMAIN f

(* a normalization that also divides a value of exactly 1.0 *)
NormalizeInclusive(v) == IF v >= ValueScale THEN v \div 100 ELSE v

(* the normalization written out in _calculate_score *)
NormalizeForScore(v) == IF v > ValueScale THEN v \div 100 ELSE v

(* the same expression written out again in _generate_explanation *)
NormalizeForExplanation(v) == IF v > ValueScale THEN v \div 100 ELSE v

(* the loop of _calculate_score from weight i on, acc the running sum *)
RECURSIVE LinearFrom(_, _, _)
LinearFrom(f, i, acc) ==
    IF i > Len(Weights) THEN acc
    ELSE LET w == Weights[i]
         IN  LinearFrom(f, i + 1,
                        IF w.feature \in DOMAIN f
                        THEN acc + w.weight * NormalizeForScore(f[w.feature])
                        ELSE acc)

(* a sum that also takes in a key outside the weight table *)
LinearSumAllKeys(f) ==
    LinearFrom(f, 1, Intercept)
        + (IF "applicant_region" \in DOMAIN f THEN f["applicant_region"] ELSE 0)

(* the value of score before the sigmoid *)
LinearSum(f) == LinearFrom(f, 1, Intercept)

CalculateScore(f) == Sigmoid(LinearSum(f))

(* contribution = weight * normalized, before rounding *)
Contribution(f, i) ==
    Weights[i].weight * NormalizeForExplanation(f[Weights[i].feature])

(* the explanation dict as filled by the loop: weight-table order *)
RECURSIVE ExplanationFrom(_, _)
ExplanationFrom(f, i) ==
    IF i > Len(Weights) THEN << >>
    ELSE IF Weights[i].feature \in DOMAIN f
         THEN << [feature |-> Weights[i].feature,
                  contribution |-> Round4(Contribution(f, i))] >>
              \o ExplanationFrom(f, i + 1)
         ELSE ExplanationFrom(f, i + 1)

(* a sort on the signed contribution: key=lambda x: x[1] *)
RECURSIVE InsertBySigned(_, _)
InsertBySigned(sorted, e) ==
    IF sorted = << >> THEN << e >>
    ELSE IF Head(sorted).contribution >= e.contribution
         THEN << Head(sorted) >> \o InsertBySigned(Tail(sorted), e)
         ELSE << e >> \o sorted

(* sorted(..., key=lambda x: abs(x[1]), reverse=True): a stable sort, so an
   item goes after every item whose key is at least its own *)
RECURSIVE InsertByAbs(_, _)
InsertByAbs(sorted, e) ==
    IF sorted = << >> THEN << e >>
    ELSE IF Abs(Head(sorted).contribution) >= Abs(e.contribution)
         THEN << Head(sorted) >> \o InsertByAbs(Tail(sorted), e)
         ELSE << e >> \o sorted

RECURSIVE SortFrom(_, _, _)
SortFrom(items, i, sorted) ==
    IF i > Len(items) THEN sorted
    ELSE SortFrom(items, i + 1, InsertByAbs(sorted, items[i]))

SortByAbsDescending(items) == SortFrom(items, 1, << >>)

GenerateExplanation(f) == SortByAbsDescending(ExplanationFrom(f, 1))

(* a decision that needs the score strictly above the threshold *)
DecideStrict(score) == IF score > THRESHOLD THEN "approved" ELSE "denied"

Decide(score) == IF score >= THRESHOLD THEN "approved" ELSE "denied"

(* a confidence that is not divided by the threshold *)
ConfidenceUndivided(score) == Min(Abs(score - THRESHOLD), Scale)

(* abs(score - THRESHOLD) / THRESHOLD, then min(confidence, 1.0) *)
Confidence(score) == Min(DivFix(Abs(score - THRESHOLD), THRESHOLD), Scale)

(* datetime.now().isoformat(): the reading with its sub-second part *)
TicksPerSecond == 2

IsoFormat(t) == [second |-> t \div TicksPerSecond, fraction |-> t % TicksPerSecond]

(* the CreditPrediction that predict returns for a valid FeatureSet *)
Prediction(f, now) ==
    LET score == CalculateScore(f)
    IN  [kind          |-> "prediction",
         score         |-> Round4(score),
         decision      |-> Decide(score),
         confidence    |-> Round4(Confidence(score)),
         explanation   |-> GenerateExplanation(f),
         model_version |-> VERSION,
         timestamp     |-> IsoFormat(now)]

(* predict, as a function of its argument and of the clock *)
PredictOutcome(f, now) ==
    LET missing == ValidateFeatures(f)
    IN  IF missing # {}
        THEN [kind |-> "error", type |-> "ValueError", missing |-> missing]
        ELSE Prediction(f, now)

PredictCalls(f) ==
    IF ValidateFeatures(f) # {}
    THEN << "_validate_features" >>
    ELSE << "_validate_features", "_calculate_score", "_generate_explanation" >>

----------------------------------------------------------------------------
(* HumanOversight *)

REVIEW_THRESHOLD_LOW == 400000

REVIEW_THRESHOLD_HIGH == 600000

LowConfidence == 300000

BorderlineReason == "Borderline score requires human review"

LowConfidenceReason == "Low confidence prediction"

(* the two checks in the other order: confidence first *)
requires_review_confidence_first(p) ==
    IF p.confidence < LowConfidence
    THEN [kind |-> "decision", requires_review |-> TRUE,
          reason |-> LowConfidenceReason]
    ELSE IF REVIEW_THRESHOLD_LOW <= p.score /\ p.score <= REVIEW_THRESHOLD_HIGH
         THEN [kind |-> "decision", requires_review |-> TRUE,
               reason |-> BorderlineReason]
         ELSE [kind |-> "decision", requires_review |-> FALSE, reason |-> ""]

requires_review(p) ==
    IF REVIEW_THRESHOLD_LOW <= p.score /\ p.score <= REVIEW_THRESHOLD_HIGH
    THEN [kind |-> "decision", requires_review |-> TRUE, reason |-> BorderlineReason]
    ELSE IF p.confidence < LowConfidence
         THEN [kind |-> "decision", requires_review |-> TRUE,
               reason |-> LowConfidenceReason]
         ELSE [kind |-> "decision", requires_review |-> FALSE, reason |-> ""]

(* a stamp that stops at the minute: strftime('%Y%m%d%H%M') *)
StrfTimeToMinute(sec) ==
    << sec \div 86400, ((sec \div 3600) % 24) \div 10, ((sec \div 3600) % 24) % 10,
       ((sec \div 60) % 60) \div 10, ((sec \div 60) % 60) % 10 >>

(* strftime('%Y%m%d%H%M%S') of a whole second: the day stands for YYYYMMDD,
   then two digits each of hour, minute and second *)
TwoDigits(n) == << n \div 10, n % 10 >>

StrfTime(sec) ==
    << sec \div 86400 >> \o TwoDigits((sec \div 3600) % 24)
        \o TwoDigits((sec \div 60) % 60) \o TwoDigits(sec % 60)

(* f"AUDIT-{datetime.now().strftime(...)}" for the clock reading t *)
AuditId(t) == [prefix |-> "AUDIT-", stamp |-> StrfTime(t \div TicksPerSecond)]

(* the log_entry built from a prediction, the arguments (override False when
   omitted) and the two clock readings the function takes *)
log_decision(p, reviewer, overrideArg, first, second) ==
    [timestamp  |-> IsoFormat(first),
     prediction |-> [score |-> p.score, decision |-> p.decision,
                     model_version |-> p.model_version],
     reviewer   |-> reviewer,
     override   |-> (overrideArg = "True"),
     audit_id   |-> AuditId(second)]

----------------------------------------------------------------------------
(* Inputs *)

SampleFeatures ==
    [k \in Range(FEATURES) |->
        CASE k = "debt_to_income"        -> 350000
          [] k = "credit_utilization"    -> 450000
          [] k = "payment_history_score" -> 850000
          [] k = "account_age_months"    -> 480000
          [] k = "inquiry_count_6mo"     -> 20000
          [] k = "income_stability"      -> 8000
          [] k = "employment_length"     -> 360000
          [] k = "existing_accounts"     -> 50000]

ExtraKey == "applicant_region"

(* f with the extra key e present when e is not the marker 0 *)
WithExtra(f, e) ==
    IF e = 0 THEN f
    ELSE [k \in DOMAIN f \cup {ExtraKey} |-> IF k = ExtraKey THEN e ELSE f[k]]

(* FeatureSets holding all 8 required names.  debt_to_income sweeps values
   that put the score at and around 0.5, 0.4, 0.6, 0.35 and 0.65, at 0 and at
   1; the others take the demo's value, the boundary 1.0, a value just above
   it, a negative value and ties in |contribution| *)
ValidFeatureSets ==
    { WithExtra([SampleFeatures EXCEPT
                    !["debt_to_income"] = d, !["credit_utilization"] = c,
                    !["payment_history_score"] = p, !["account_age_months"] = a,
                    !["inquiry_count_6mo"] = q, !["income_stability"] = s,
                    !["employment_length"] = l, !["existing_accounts"] = x], e) :
        d \in {-700000, 0, 21900, 350000, 1044400, 1157600, 1422800, 2580000,
               1100000000},
        c \in {0, 450000, 2000000},
        p \in {0, 850000},
        a \in {0, 480000},
        q \in {20000, 5000},
        s \in {8000, 10000, 10100},
        l \in {360000, 5000},
        x \in {50000, -500000},
        e \in {0, 9990000} }

(* FeatureSets lacking one or more required names *)
InvalidFeatureSets ==
    { WithExtra([k \in present |-> SampleFeatures[k]], e) :
        present \in (SUBSET Range(FEATURES)) \ {Range(FEATURES)},
        e \in {0, 9990000} }

FeatureSets == ValidFeatureSets \cup InvalidFeatureSets

(* CreditPrediction objects a caller builds itself *)
ConstructedPredictions ==
    { [kind |-> "prediction", score |-> sc, decision |-> Decide(sc),
       confidence |-> cf, explanation |-> << >>, model_version |-> VERSION,
       timestamp |-> IsoFormat(0)] :
        sc \in {0, 349900, 350000, 399900, 400000, 500000, 600000, 600100,
                650000, 650100, 1000000},
        cf \in {0, 200000, 299900, 300000, 1000000} }

NoOutcome == [kind |-> "none"]

NoReview == [kind |-> "none"]

----------------------------------------------------------------------------
(* The scoring pipeline: one predict call on a FeatureSet, or a prediction
   built by the caller, then requires_review *)

StartSecond == 59

ClockStart == StartSecond * TicksPerSecond

Init ==
    /\ \/ features \in FeatureSets /\ outcome = NoOutcome
       \/ features = << >> /\ outcome \in ConstructedPredictions
    /\ calls = << >>
    /\ review = NoReview
    /\ clock = ClockStart
    /\ auditLog = << >>

Predict(f) ==
    /\ features' = f
    /\ outcome' = PredictOutcome(f, clock)
    /\ calls' = PredictCalls(f)
    /\ review' = NoReview
    /\ UNCHANGED <<clock, auditLog>>

PredictPending ==
    /\ outcome = NoOutcome
    /\ Predict(features)

RequiresReview ==
    /\ outcome.kind = "prediction"
    /\ review = NoReview
    /\ review' = requires_review(outcome)
    /\ UNCHANGED <<features, outcome, calls, clock, auditLog>>

Next == PredictPending \/ RequiresReview

Spec == Init /\ [][Next]_vars

----------------------------------------------------------------------------
(* The audit trail: predict calls, the clock, and log_decision calls *)

MaxTicks == 4

MaxLogs == 2

MaxGap == 2

ClockEnd == ClockStart + MaxTicks

(* an approved applicant (the demo's) and a denied one (debt_to_income 500.0) *)
AuditFeatureSets ==
    { SampleFeatures, [SampleFeatures EXCEPT !["debt_to_income"] = 5000000] }

(* the reviewer and override arguments of a call: both left out (reviewer
   None), or a reviewer's name with override given as True or as False *)
LogArguments ==
    { [reviewer |-> "None", overrideArg |-> "omitted"],
      [reviewer |-> "analyst_1", overrideArg |-> "True"],
      [reviewer |-> "analyst_1", overrideArg |-> "False"] }

(* what log_decision reads of the prediction it is given *)
Logged(p) == [score |-> p.score, decision |-> p.decision,
              model_version |-> p.model_version]

InitAudit ==
    /\ features \in AuditFeatureSets
    /\ outcome = NoOutcome
    /\ calls = << >>
    /\ review = NoReview
    /\ clock = ClockStart
    /\ auditLog = << >>

(* the caller scores the next applicant once the last prediction is logged *)
PredictNext ==
    /\ Len(auditLog) < MaxLogs
    /\ \/ outcome = NoOutcome
       \/ /\ auditLog # << >>
          /\ auditLog[Len(auditLog)].logged = Logged(outcome)
    /\ \E f \in AuditFeatureSets : Predict(f)

Tick ==
    /\ clock < ClockEnd
    /\ clock' = clock + 1
    /\ UNCHANGED <<features, outcome, calls, review, auditLog>>

(* log_decision reads the clock twice: for 'timestamp', then for 'audit_id';
   gap is how far the clock moved in between *)
LogDecision ==
    /\ outcome.kind = "prediction"
    /\ Len(auditLog) < MaxLogs
    /\ \E args \in LogArguments, gap \in 0 .. MaxGap :
          /\ clock + gap <= ClockEnd
          /\ clock' = clock + gap
          /\ auditLog' = Append(auditLog,
                [logged      |-> Logged(outcome),
                 reviewer    |-> args.reviewer,
                 overrideArg |-> args.overrideArg,
                 idReading   |-> clock + gap,
                 entry       |-> log_decision(outcome, args.reviewer,
                                              args.overrideArg, clock, clock + gap)])
    /\ UNCHANGED <<features, outcome, calls, review>>

NextAudit == PredictNext \/ Tick \/ LogDecision

SpecAudit == InitAudit /\ [][NextAudit]_vars

----------------------------------------------------------------------------
(* Properties *)

(* the outcome is the result of a predict call (not a prediction the caller
   built) *)
Predicted == calls # << >> /\ outcome.kind = "prediction"

(* C1: requires_review is first match wins.  A score in [0.4, 0.6], bounds
   included, gives (True, borderline reason) whatever the confidence is;
   otherwise a confidence below 0.3 gives (True, low-confidence reason);
   otherwise (False, "").  So the reason is empty exactly when no review is
   required, and the low-confidence reason never goes with a score in the
   band. *)
C1_FirstMatchWins ==
    review.kind = "decision" =>
        LET inBand == 400000 <= outcome.score /\ outcome.score <= 600000
            lowConf == outcome.confidence < 300000
        IN  /\ inBand =>
                review.requires_review /\ review.reason = BorderlineReason
            /\ (~inBand /\ lowConf) =>
                review.requires_review /\ review.reason = LowConfidenceReason
            /\ (~inBand /\ ~lowConf) =>
                ~review.requires_review /\ review.reason = ""
            /\ (review.reason = "") <=> ~review.requires_review
            /\ (review.reason = LowConfidenceReason) => ~inBand

(* C1 witness: predict produced a score of exactly 0.4 whose confidence is
   under 0.3, and requires_review reported the borderline reason *)
C1_Witness ==
    /\ Predicted
    /\ outcome.score = 400000
    /\ outcome.confidence < 300000
    /\ review.kind = "decision"
    /\ review.reason = BorderlineReason

(* C2 as stated: for a FeatureSet with all 8 features, decision is 'approved'
   if and only if the score field of the returned Prediction is >= 0.5 *)
C2_DecisionMatchesScoreField ==
    Predicted =>
        (outcome.decision = "approved" <=> outcome.score >= 500000)

(* C2 amended: decision is 'approved' if and only if the unrounded score of
   _calculate_score is >= 0.5, and 'denied' otherwise; the score field is that
   score rounded to 4 decimals, so a field above 0.5 goes with 'approved', a
   field below 0.5 with 'denied', and a field of exactly 0.5 with either *)
C2_DecisionMatchesUnroundedScore ==
    Predicted =>
        /\ outcome.decision \in {"approved", "denied"}
        /\ outcome.decision = "approved" <=> CalculateScore(features) >= 500000
        /\ outcome.score = Round4(CalculateScore(features))
        /\ outcome.score > 500000 => outcome.decision = "approved"
        /\ outcome.score < 500000 => outcome.decision = "denied"

(* C2 witness: a prediction whose score field is 0.5 and whose decision is
   'denied': the unrounded score lies in [0.49995, 0.5) *)
C2_Witness ==
    /\ Predicted
    /\ outcome.score = 500000
    /\ outcome.decision = "denied"
    /\ CalculateScore(features) < 500000

(* C3: predict on a FeatureSet lacking required names raises a validation
   error listing exactly the missing names, all of them, before any scoring or
   explanation step and with no partial result; with no name missing no error
   is raised *)
C3_MissingFeaturesRejected ==
    calls # << >> =>
        LET missing == {k \in Range(FEATURES) : k \notin DOMAIN features}
        IN  /\ missing # {} =>
                /\ outcome.kind = "error"
                /\ outcome.missing = missing
                /\ DOMAIN outcome = {"kind", "type", "missing"}
                /\ calls = << "_validate_features" >>
            /\ missing = {} => outcome.kind = "prediction"

(* C3 witness: a call that failed with two or more names missing, on a
   FeatureSet that carried an extra key *)
C3_Witness ==
    /\ outcome.kind = "error"
    /\ Cardinality(outcome.missing) >= 2
    /\ ExtraKey \in DOMAIN features

(* the sum of the unrounded contributions of weights i .. 8 *)
RECURSIVE ContributionsFrom(_, _)
ContributionsFrom(f, i) ==
    IF i > Len(Weights) THEN 0
    ELSE Contribution(f, i) + ContributionsFrom(f, i + 1)

(* C4: for every valid FeatureSet the intercept plus the sum of the unrounded
   per-feature contributions of _generate_explanation equals the pre-sigmoid
   linear sum of _calculate_score *)
C4_ExplanationSumsToLogit ==
    Predicted =>
        Intercept + ContributionsFrom(features, 1) = LinearSum(features)

(* C4 witness: a scored FeatureSet with a value of exactly 1.0, a value above
   1 and a negative value, so that every branch of the normalization is taken *)
C4_Witness ==
    /\ Predicted
    /\ features["income_stability"] = 10000
    /\ features["debt_to_income"] > 10000
    /\ features["existing_accounts"] < 0
    /\ LinearSum(features) # Intercept

(* the place of a feature in the weight table *)
WeightIndex(name) == CHOOSE i \in DOMAIN Weights : Weights[i].feature = name

(* C5: the explanation is ordered by descending absolute contribution, and
   entries of equal absolute contribution keep the order of the weight table *)
C5_ExplanationOrdered ==
    Predicted =>
        \A i \in 1 .. Len(outcome.explanation) - 1 :
            LET a == outcome.explanation[i]
                b == outcome.explanation[i + 1]
            IN  /\ Abs(a.contribution) >= Abs(b.contribution)
                /\ Abs(a.contribution) = Abs(b.contribution) =>
                       WeightIndex(a.feature) < WeightIndex(b.feature)

(* C5 witness: an explanation with two neighbours of equal absolute value
   and opposite sign, and a larger entry of negative sign at the head *)
C5_Witness ==
    /\ Predicted
    /\ outcome.explanation[1].contribution < 0
    /\ \E i \in 1 .. Len(outcome.explanation) - 1 :
          /\ outcome.explanation[i].contribution
                 = -outcome.explanation[i + 1].contribution
          /\ outcome.explanation[i].contribution # 0

(* the FeatureSet without the keys outside the required set *)
RequiredOnly(f) == [k \in DOMAIN f \cap Range(FEATURES) |-> f[k]]

(* C6: extra keys are ignored: predict returns the same score, decision,
   confidence and explanation as for the FeatureSet without them, and the
   explanation has exactly one entry per required feature and none for an
   extra key *)
C6_ExtraKeysIgnored ==
    Predicted =>
        LET base == Prediction(RequiredOnly(features), clock)
        IN  /\ outcome.score = base.score
            /\ outcome.decision = base.decision
            /\ outcome.confidence = base.confidence
            /\ outcome.explanation = base.explanation
            /\ Len(outcome.explanation) = Len(FEATURES)
            /\ {outcome.explanation[i].feature : i \in DOMAIN outcome.explanation}
                   = Range(FEATURES)

(* C6 witness: a prediction for a FeatureSet that carried an extra key *)
C6_Witness ==
    /\ Predicted
    /\ DOMAIN features # Range(FEATURES)
    /\ RequiredOnly(features) # features

(* C7: the confidence of a score s in [0, 1] is min(|s - 0.5| / 0.5, 1.0),
   that is min(2|s - 0.5|, 1): it lies in [0, 1], is 0 at s = 0.5 and is 1 at
   s = 0 and at s = 1; the confidence field is that value rounded *)
C7_ConfidenceOfScore ==
    Predicted =>
        LET s == CalculateScore(features)
            c == Confidence(s)
        IN  /\ 0 <= s /\ s <= 1000000
            /\ 0 <= c /\ c <= 1000000
            /\ c = (IF 2 * Abs(s - 500000) < 1000000
                    THEN 2 * Abs(s - 500000) ELSE 1000000)
            /\ s = 500000 => c = 0
            /\ s \in {0, 1000000} => c = 1000000
            /\ outcome.confidence = Round4(c)
            /\ 0 <= outcome.confidence /\ outcome.confidence <= 1000000

(* C7 witness: a prediction whose unrounded score is exactly 1.0, with
   confidence 1.0 *)
C7_Witness ==
    /\ Predicted
    /\ CalculateScore(features) = 1000000
    /\ outcome.confidence = 1000000

(* C8 as stated: normalization, in scoring and in explanation alike, divides
   a raw value by 100 when its absolute value is > 1 and leaves it unchanged
   otherwise, negative values included *)
C8_NormalizesByMagnitude ==
    Predicted =>
        \A k \in Range(FEATURES) :
            LET v == features[k]
                byMagnitude == IF Abs(v) > 10000 THEN v \div 100 ELSE v
            IN  /\ NormalizeForScore(v) = byMagnitude
                /\ NormalizeForExplanation(v) = byMagnitude

(* C9: log_decision always returns a record, and its audit_id depends only on
   the second of the clock reading taken for it: two calls return the same
   audit_id exactly when those readings fall in the same second, whatever the
   prediction, reviewer and override *)
C9_AuditIdBySecond ==
    \A i, j \in DOMAIN auditLog :
        LET a == auditLog[i]
            b == auditLog[j]
        IN  /\ DOMAIN a.entry
                   = {"timestamp", "prediction", "reviewer", "override", "audit_id"}
            /\ a.entry.audit_id.prefix = "AUDIT-"
            /\ (a.idReading \div TicksPerSecond = b.idReading \div TicksPerSecond)
                   <=> (a.entry.audit_id = b.entry.audit_id)

(* C9 witness: two calls at different instants of one second, for different
   predictions, reviewers and overrides, that returned the same audit_id *)
C9_Witness ==
    /\ Len(auditLog) >= 2
    /\ auditLog[1].idReading # auditLog[2].idReading
    /\ auditLog[1].logged # auditLog[2].logged
    /\ auditLog[1].reviewer # auditLog[2].reviewer
    /\ auditLog[1].entry.override # auditLog[2].entry.override
    /\ auditLog[1].entry.audit_id = auditLog[2].entry.audit_id

(* C10 as stated: in every record of log_decision the second in audit_id is
   the second of the record's own timestamp, even when the clock advances
   while the record is built, and the record carries the prediction's score,
   decision and model_version with the reviewer and override arguments *)
C10_AuditIdIsTimestampSecond ==
    \A i \in DOMAIN auditLog :
        LET a == auditLog[i]
        IN  /\ a.entry.audit_id.stamp = StrfTime(a.entry.timestamp.second)
            /\ a.entry.prediction = a.logged
            /\ a.entry.reviewer = a.reviewer
            /\ a.entry.override = (a.overrideArg = "True")

====
